---- MODULE Spec2Model ----
(***************************************************************************)
(* A model of yaani.py, the NetBox dynamic inventory script: the key-path  *)
(* expression language (KeyPathResolver, KeyPathTransformer), the          *)
(* sub-import engine (StackTransformer) and the inventory assembly         *)
(* (InventoryBuilder, main).                                               *)
(*                                                                         *)
(* Python values are tagged tuples: None is <<"null">>, a string is        *)
(* <<"str", s>>, an integer <<"int", n>>, a list <<"list", seq>> and a     *)
(* dict <<"dict", f>> with f a function from its keys to values.  The      *)
(* outcome of a call is Ok(v), or Fail(kind) when the call ends the        *)
(* process: sys.exit (SystemExit) or an exception nobody catches.          *)
(***************************************************************************)
EXTENDS Naturals, Sequences, FiniteSets, TLC

VARIABLES
    pc,                 \* position of the running scenario
    expression,         \* key-path expression under resolution (tokens)
    namespaces,         \* KeyPathResolver._namespaces: selector -> namespace
    resolved,           \* outcome of KeyPathResolver.resolve
    nb,                 \* the directory: endpoint -> listing of records
    script_args,        \* the parsed command line: list, host
    import_section,     \* the configuration's import section
    inventory,          \* the inventory under construction
    statements,         \* the import statements build_inventory iterates
    stmt_i,             \* the statement _execute_import is run for
    netbox_hosts_list,  \* the records fetched for that statement
    host_i,             \* the next record of the list to process
    build_namespace,    \* the namespaces of the last record processed
    import_namespace,
    sub_import_namespace,
    document,           \* what build_inventory returned
    output,             \* what main printed
    failure             \* why the process ended early, Null if it did not

exprVars == <<expression, namespaces, resolved>>
buildVars == <<nb, script_args, import_section, inventory, statements, stmt_i,
               netbox_hosts_list, host_i, build_namespace, import_namespace,
               sub_import_namespace, document, output, failure>>
vars == <<pc, exprVars, buildVars>>

(***************************************************************************)
(* Python values and call outcomes                                         *)
(***************************************************************************)
Null == <<"null">>
Str(s) == <<"str", s>>
Int(n) == <<"int", n>>
List(q) == <<"list", q>>
Dict(f) == <<"dict", f>>
EmptyDict == Dict(<<>>)

IsNull(v) == v[1] = "null"
IsStr(v) == v[1] = "str"
IsInt(v) == v[1] = "int"
IsList(v) == v[1] = "list"
IsDict(v) == v[1] = "dict"

Ok(v) == <<"ok", v>>
Fail(kind) == <<"fail", kind>>
IsOk(r) == r[1] = "ok"
IsFail(r) == r[1] = "fail"

\* The partial functions from subsets of keys to vals: the dicts over them.
DictsOver(keys, vals) ==
    UNION {{Dict(f) : f \in [S -> vals]} : S \in SUBSET keys}

(***************************************************************************)
(* Tokens of an expression string.  A string is modelled after lexing, as  *)
(* the sequence of its lexemes: punctuation and keywords-in-quotes of the  *)
(* grammar (Sym), words matching \w+ (Word), ESCAPED_STRING literals given *)
(* by their content between the quotes (StrLit) and numbers (Num).         *)
(***************************************************************************)
Sym(s) == <<"SYM", s>>
Word(s) == <<"WORD", s>>
StrLit(s) == <<"STRING", s>>
Num(n) == <<"NUMBER", n>>
IsWord(t) == t[1] = "WORD"
IsStrLit(t) == t[1] = "STRING"
IsNum(t) == t[1] = "NUMBER"

\* The strings the configurations below are written with, as tokens.
RECURSIVE Dotted(_)
Dotted(keys) ==
    IF Len(keys) = 1 THEN <<Word(keys[1])>>
    ELSE <<Word(keys[1]), Sym(".")>> \o Dotted(Tail(keys))

\* The tokens of "<sel>k1.k2...", of "k1.k2..." when sel is "".
KeyPathTokens(sel, keys) ==
    (IF sel = "" THEN <<>> ELSE <<Sym("<"), Word(sel), Sym(">")>>)
        \o Dotted(keys)

DefaultKeyTokens(f) ==
    <<Sym("|"), Word("default_key"), Sym("(")>> \o f \o <<Sym(")")>>

SubTokens(pattern, repl, numbers) ==
    <<Sym("|"), Word("sub"), Sym("("), StrLit(pattern), Sym(","), StrLit(repl)>>
        \o (IF Len(numbers) = 0 THEN <<>>
            ELSE IF Len(numbers) = 1 THEN <<Sym(","), Num(numbers[1])>>
            ELSE <<Sym(","), Num(numbers[1]), Sym(","), Num(numbers[2])>>)
        \o <<Sym(")")>>

DEFAULT_NS == "i"
NAMESPACES == {"i", "s", "b"}

SyntaxError == [ok |-> FALSE]

\* Is token i of ts the token t?
At(ts, i, t) == i <= Len(ts) /\ ts[i] = t
WordAt(ts, i) == i <= Len(ts) /\ IsWord(ts[i])

\* ("." KEY_NAME)* from position i, after the keys read so far.
RECURSIVE ParseKeys(_, _, _)
ParseKeys(ts, i, keys) ==
    IF At(ts, i, Sym("."))
    THEN IF WordAt(ts, i + 1)
         THEN ParseKeys(ts, i + 2, Append(keys, ts[i + 1][2]))
         ELSE SyntaxError
    ELSE [ok |-> TRUE, tree |-> keys, next |-> i]

\* key_path: namespace KEY_NAME ("." KEY_NAME)*, namespace: ("<" /[isb]/ ">")?
\* The tree's children are the namespace callback's value and the keys.
namespace(n) == IF Len(n) > 0 THEN n[1] ELSE DEFAULT_NS

KeyPathTree(ns, rest) ==
    IF rest.ok
    THEN [ok |-> TRUE, next |-> rest.next, tree |-> <<"key_path", ns, rest.tree>>]
    ELSE SyntaxError

ParseKeyPath(ts, i) ==
    IF At(ts, i, Sym("<"))
    THEN IF WordAt(ts, i + 1) /\ ts[i + 1][2] \in NAMESPACES
            /\ At(ts, i + 2, Sym(">")) /\ WordAt(ts, i + 3)
         THEN KeyPathTree(namespace(<<ts[i + 1][2]>>),
                          ParseKeys(ts, i + 4, <<ts[i + 3][2]>>))
         ELSE SyntaxError
    ELSE IF WordAt(ts, i)
         THEN KeyPathTree(namespace(<<>>), ParseKeys(ts, i + 1, <<ts[i][2]>>))
         ELSE SyntaxError

\* The arguments of sub: STRING "," STRING ["," NUMBER ["," NUMBER]] ")"
ParseSubArgs(ts, i) ==
    IF ~(i + 2 <= Len(ts) /\ IsStrLit(ts[i]) /\ ts[i + 1] = Sym(",")
         /\ IsStrLit(ts[i + 2]))
    THEN SyntaxError
    ELSE IF At(ts, i + 3, Sym(")"))
    THEN [ok |-> TRUE, next |-> i + 4,
          tree |-> <<ts[i][2], ts[i + 2][2], <<>>>>]
    ELSE IF ~(At(ts, i + 3, Sym(",")) /\ i + 4 <= Len(ts) /\ IsNum(ts[i + 4]))
    THEN SyntaxError
    ELSE IF At(ts, i + 5, Sym(")"))
    THEN [ok |-> TRUE, next |-> i + 6,
          tree |-> <<ts[i][2], ts[i + 2][2], <<ts[i + 4][2]>>>>]
    ELSE IF At(ts, i + 5, Sym(",")) /\ i + 6 <= Len(ts) /\ IsNum(ts[i + 6])
            /\ At(ts, i + 7, Sym(")"))
    THEN [ok |-> TRUE, next |-> i + 8,
          tree |-> <<ts[i][2], ts[i + 2][2], <<ts[i + 4][2], ts[i + 6][2]>>>>]
    ELSE SyntaxError

\* expr "|" "default_key" "(" key_path ")"  and  expr "|" "sub" "(" ... ")",
\* left-recursive: each "|" wraps the expression read so far.  ParsePipes
\* reads the "|" at i; DefaultKeyTree and SubTree go on once the key path f
\* of a default_key, the arguments a of a sub, are read.
RECURSIVE ParsePipes(_, _, _)
RECURSIVE DefaultKeyTree(_, _, _)
RECURSIVE SubTree(_, _, _)
DefaultKeyTree(ts, left, f) ==
    IF f.ok /\ At(ts, f.next, Sym(")"))
    THEN ParsePipes(ts, f.next + 1, <<"default_key", left, f.tree>>)
    ELSE SyntaxError

SubTree(ts, left, a) ==
    IF a.ok
    THEN ParsePipes(ts, a.next, <<"sub", left, a.tree[1], a.tree[2], a.tree[3]>>)
    ELSE SyntaxError

ParsePipes(ts, i, left) ==
    IF i > Len(ts) THEN [ok |-> TRUE, tree |-> left, next |-> i]
    ELSE IF ~(ts[i] = Sym("|") /\ At(ts, i + 2, Sym("("))) THEN SyntaxError
    ELSE IF ts[i + 1] = Word("default_key")
    THEN DefaultKeyTree(ts, left, ParseKeyPath(ts, i + 3))
    ELSE IF ts[i + 1] = Word("sub")
    THEN SubTree(ts, left, ParseSubArgs(ts, i + 3))
    ELSE SyntaxError

ExprTree(ts, kp) == IF kp.ok THEN ParsePipes(ts, kp.next, kp.tree) ELSE SyntaxError

\* Lark(grammar, start="expr", parser='lalr').parse
ParseExpr(ts) == ExprTree(ts, ParseKeyPath(ts, 1))

(***************************************************************************)
(* KeyPathTransformer: the callbacks of the bottom-up tree visitor         *)
(***************************************************************************)
\* The loop of key_path over keys_list from position i.  A key that is not
\* in the current mapping ends the process unless it is 'ALL' in the last
\* position; a value with no keys() method (a string, a number, a list)
\* raises AttributeError.
\* WalkKeys with a missing key read as None instead of ending the process.
RECURSIVE WalkKeysLenient(_, _, _)
WalkKeysLenient(selected_ns, keys_list, i) ==
    IF i > Len(keys_list) THEN Ok(selected_ns)
    ELSE IF IsNull(selected_ns) THEN Ok(selected_ns)
    ELSE IF ~IsDict(selected_ns) THEN Fail("NotAMapping")
    ELSE IF keys_list[i] \in DOMAIN selected_ns[2]
    THEN WalkKeysLenient(selected_ns[2][keys_list[i]], keys_list, i + 1)
    ELSE IF keys_list[i] = "ALL" /\ i = Len(keys_list) THEN Ok(selected_ns)
    ELSE Ok(Null)

\* WalkKeys with a missing last key read as None.
RECURSIVE WalkKeysLastLenient(_, _, _)
WalkKeysLastLenient(selected_ns, keys_list, i) ==
    IF i > Len(keys_list) THEN Ok(selected_ns)
    ELSE IF IsNull(selected_ns) THEN Ok(selected_ns)
    ELSE IF ~IsDict(selected_ns) THEN Fail("NotAMapping")
    ELSE IF keys_list[i] \in DOMAIN selected_ns[2]
    THEN WalkKeysLastLenient(selected_ns[2][keys_list[i]], keys_list, i + 1)
    ELSE IF keys_list[i] = "ALL" /\ i = Len(keys_list) THEN Ok(selected_ns)
    ELSE IF i = Len(keys_list) THEN Ok(Null)
    ELSE Fail("UnresolvedKeyPath")

RECURSIVE WalkKeys(_, _, _)
WalkKeys(selected_ns, keys_list, i) ==
    IF i > Len(keys_list) THEN Ok(selected_ns)
    ELSE IF IsNull(selected_ns) THEN Ok(selected_ns)
    ELSE IF ~IsDict(selected_ns) THEN Fail("NotAMapping")
    ELSE IF keys_list[i] \in DOMAIN selected_ns[2]
    THEN WalkKeys(selected_ns[2][keys_list[i]], keys_list, i + 1)
    ELSE IF keys_list[i] = "ALL" /\ i = Len(keys_list) THEN Ok(selected_ns)
    ELSE Fail("UnresolvedKeyPath")

\* key_path(n): n[0] is the namespace selector, n[1:] the keys.  An unknown
\* selector reaches sys.exist(...), which raises AttributeError.
key_path(nss, n) ==
    IF n[1] \notin DOMAIN nss THEN Fail("UnknownNamespace")
    ELSE WalkKeys(nss[n[1]], Tail(n), 1)

\* default_key with the test of n[0] inverted.
default_key_inverted(n) == IF IsNull(n[1]) THEN n[1] ELSE n[2]

\* default_key(n): both children are already transformed values.
default_key(n) == IF IsNull(n[1]) THEN n[2] ELSE n[1]

\* The characters data strings are written with.
Alphabet == {"a", "b", "-", "_", "1"}

RECURSIVE Join(_)
Join(q) == IF Len(q) = 0 THEN "" ELSE q[1] \o Join(Tail(q))

\* The characters of string s.
Chars(s) == CHOOSE q \in [1..Len(s) -> Alphabet] : Join(q) = s

\* Patterns are literal strings over Alphabet, or one of these, which
\* re.compile rejects with re.error.
BadPatterns == {"(", "["}

\* re.sub on characters: leftmost non-overlapping occurrences of the literal
\* p in s replaced by r, at most count of them when count > 0 (the numbers
\* of an expression are naturals here).  The empty pattern matches before
\* every character and at the end.
RECURSIVE SubChars(_, _, _, _, _)
SubChars(p, r, s, count, done) ==
    IF count > 0 /\ done = count THEN s
    ELSE IF Len(p) = 0
    THEN IF Len(s) = 0 THEN r
         ELSE r \o <<s[1]>> \o SubChars(p, r, Tail(s), count, done + 1)
    ELSE IF Len(s) = 0 THEN <<>>
    ELSE IF Len(p) <= Len(s) /\ SubSeq(s, 1, Len(p)) = p
    THEN r \o SubChars(p, r, SubSeq(s, Len(p) + 1, Len(s)), count, done + 1)
    ELSE <<s[1]>> \o SubChars(p, r, Tail(s), count, done)

\* str(x) of a string or an integer.
PyStr(v) == IF IsStr(v) THEN v[2] ELSE ToString(v[2])

\* re.sub(pattern, repl, data_str, count) on strings.
SubStr(pattern, repl, data_str, count) ==
    Join(SubChars(Chars(pattern), Chars(repl), Chars(data_str), count, 0))

\* Is the bit of value bit set in the integer flags?
FlagSet(flags, bit) == (flags \div bit) % 2 = 1

\* re.compile's check of the flags of a str pattern, made once the pattern
\* is parsed: re.LOCALE (4) is refused, and so are re.ASCII (256) and
\* re.UNICODE (32) together.  The other flags leave the matching of a
\* literal pattern over Alphabet as it is.
FlagsRefused(flags) ==
    FlagSet(flags, 4) \/ (FlagSet(flags, 32) /\ FlagSet(flags, 256))

\* sub(n): n[0] the transformed source, n[1], n[2] the pattern and the
\* replacement, n[3:] the optional count and flags, handed to re.sub.
sub(n) ==
    IF IsNull(n[1]) THEN Ok(Null)
    ELSE IF n[2] \in BadPatterns THEN Fail("InvalidPattern")
    ELSE IF Len(n) > 4 /\ FlagsRefused(n[5]) THEN Fail("ValueError")
    ELSE Ok(Str(SubStr(n[2], n[3], PyStr(n[1]),
                       IF Len(n) > 3 THEN n[4] ELSE 0)))

\* Transformer.transform: children first, left to right, then the node's
\* callback; the first failure ends the process.  TransformPipe goes on
\* once the left child of a default_key or sub node is transformed,
\* TransformDefaultKey once both children of a default_key node are.
TransformDefaultKey(left, right) ==
    IF IsFail(right) THEN right ELSE Ok(default_key(<<left[2], right[2]>>))

RECURSIVE transform(_, _)
RECURSIVE TransformPipe(_, _, _)
TransformPipe(nss, tree, left) ==
    IF IsFail(left) THEN left
    ELSE IF tree[1] = "default_key"
    THEN TransformDefaultKey(left, transform(nss, tree[3]))
    ELSE sub(<<left[2], tree[3], tree[4]>> \o tree[5])

transform(nss, tree) ==
    IF tree[1] = "key_path" THEN key_path(nss, <<tree[2]>> \o tree[3])
    ELSE TransformPipe(nss, tree, transform(nss, tree[2]))

\* record_namespace(key, namespace): the first namespace recorded under a
\* key stays.
record_namespace(nss, key, ns) ==
    IF key \in DOMAIN nss THEN nss
    ELSE [k \in DOMAIN nss \cup {key} |-> IF k = key THEN ns ELSE nss[k]]

TransformParsed(nss, parsed) ==
    IF parsed.ok THEN transform(nss, parsed.tree) ELSE Fail("SyntaxError")

\* KeyPathResolver.resolve
resolve(nss, key_path_string) == TransformParsed(nss, ParseExpr(key_path_string))

(***************************************************************************)
(* The directory service (pynetbox): per (application, type) endpoint the  *)
(* listing of its records, each a dict of fields.  dir maps an endpoint    *)
(* <<application, type>> to the sequence of its records.                   *)
(***************************************************************************)
\* Does record e carry every field of args with the value asked for?
Matches(e, args) ==
    \A k \in DOMAIN args : k \in DOMAIN e[2] /\ e[2][k] = args[k]

RECURSIVE Matching(_, _)
Matching(records, args) ==
    IF Len(records) = 0 THEN <<>>
    ELSE (IF Matches(records[1], args) THEN <<records[1]>> ELSE <<>>)
             \o Matching(Tail(records), args)

\* endpoint.all()
EndpointAll(dir, endpoint) == dir[endpoint]

\* endpoint.filter(**args): the records matching args, in listing order.
EndpointFilter(dir, endpoint, args) == Matching(dir[endpoint], args)

\* endpoint.get(id): the record with that id, None when there is none.
EndpointGet(dir, endpoint, id) ==
    LET found == EndpointFilter(dir, endpoint, [k \in {"id"} |-> id])
    IN  IF Len(found) = 0 THEN Null ELSE found[1]

(***************************************************************************)
(* StackTransformer: the sub-import engine                                 *)
(***************************************************************************)
\* d[key] = value on a dict given as a function.
SetItem(d, key, value) ==
    [k \in DOMAIN d \cup {key} |-> IF k = key THEN value ELSE d[k]]

\* The filter loop of _import_var from filter i: each value expression is
\* resolved with the parent namespace recorded as "i" and nothing else;
\* FilterResolved goes on with the outcome r of the resolution.
RECURSIVE ResolveFilters(_, _, _, _)
RECURSIVE FilterResolved(_, _, _, _, _)
FilterResolved(parent_namespace, filter, i, filter_args, r) ==
    IF IsFail(r) THEN r
    ELSE ResolveFilters(parent_namespace, filter, i + 1,
                        SetItem(filter_args, filter[i][1], r[2]))

ResolveFilters(parent_namespace, filter, i, filter_args) ==
    IF i > Len(filter) THEN Ok(filter_args)
    ELSE FilterResolved(parent_namespace, filter, i, filter_args,
             resolve(record_namespace(<<>>, "i", parent_namespace),
                     filter[i][2]))

\* IndexElements with a repeated index value replacing the earlier entry.
RECURSIVE IndexElementsLastWins(_, _, _, _, _)
IndexElementsLastWins(elements, index_key_name, i, ret, keys) ==
    IF i > Len(elements) THEN Ok(<<Dict(ret), keys>>)
    ELSE IF IsNull(elements[i]) \/ index_key_name \notin DOMAIN elements[i][2]
    THEN Fail("AttributeError")
    ELSE IndexElementsLastWins(elements, index_key_name, i + 1,
             SetItem(ret, elements[i][2][index_key_name][2], elements[i]),
             IF elements[i][2][index_key_name][2] \in DOMAIN ret THEN keys
             ELSE Append(keys, elements[i][2][index_key_name][2]))

\* The index loop of _import_var from element i: ret maps each index value
\* to dict(e), keys holds them in insertion order.  getattr fails on None
\* and on a record without the index field.  Index values are strings.
RECURSIVE IndexElements(_, _, _, _, _)
IndexElements(elements, index_key_name, i, ret, keys) ==
    IF i > Len(elements) THEN Ok(<<Dict(ret), keys>>)
    ELSE IF IsNull(elements[i]) \/ index_key_name \notin DOMAIN elements[i][2]
    THEN Fail("AttributeError")
    ELSE IF elements[i][2][index_key_name][2] \in DOMAIN ret
    THEN Fail("DuplicateIndex")
    ELSE IndexElements(elements, index_key_name, i + 1,
             SetItem(ret, elements[i][2][index_key_name][2], elements[i]),
             Append(keys, elements[i][2][index_key_name][2]))

\* The records _import_var fetches once the filters are resolved.
FetchElements(dir, var_configuration, filter_args) ==
    IF "id" \in DOMAIN filter_args
    THEN <<EndpointGet(dir,
              <<var_configuration.application, var_configuration.type>>,
              filter_args["id"])>>
    ELSE EndpointFilter(dir,
              <<var_configuration.application, var_configuration.type>>,
              filter_args)

\* _import_var once the filters are resolved to filter_args.
FetchAndIndex(dir, var_configuration, filter_args) ==
    IF IsFail(filter_args) THEN filter_args
    ELSE IndexElements(FetchElements(dir, var_configuration, filter_args[2]),
                       var_configuration.index, 1, <<>>, <<>>)

\* _import_var(parent_namespace, loading_var): Ok(<<ret, keys of ret in
\* insertion order>>) or the failure that ends the process.
import_var(dir, vars_definition, parent_namespace, loading_var) ==
    IF loading_var \notin DOMAIN vars_definition THEN Fail("UndefinedVariable")
    ELSE FetchAndIndex(dir, vars_definition[loading_var],
             ResolveFilters(parent_namespace,
                            vars_definition[loading_var].filter, 1, <<>>))

\* A dict of the sub-import tree is named by the keys leading to it from the
\* root: <<>> is the root, <<v, x>> the namespace of child x under variable v.
RECURSIVE GetAt(_, _)
GetAt(tree, ptr) ==
    IF Len(ptr) = 0 THEN tree ELSE GetAt(tree[2][ptr[1]], Tail(ptr))

\* tree after the assignment d[key] = value on the dict d named by ptr.
RECURSIVE SetAt(_, _, _, _)
SetAt(tree, ptr, key, value) ==
    LET new == IF Len(ptr) = 0 THEN value
               ELSE SetAt(tree[2][ptr[1]], Tail(ptr), key, value)
        at == IF Len(ptr) = 0 THEN key ELSE ptr[1]
    IN  Dict([k \in DOMAIN tree[2] \cup {at} |->
                 IF k = at THEN new ELSE tree[2][k]])

\* list(v[path].values()) as names of dicts of the tree.
ChildPointers(ptr, path, keys) ==
    [j \in 1..Len(keys) |-> ptr \o <<path, keys[j]>>]

\* st.parent_ns is None (Null), the import namespace (<<"import">>) or a
\* dict of the tree (<<"tree", ptr>>).  'if parent_ns is None: parent_ns = v'
\* for container i:
ParentNs(st, i) ==
    IF IsNull(st.parent_ns) THEN <<"tree", st.sub_pointer[i]>> ELSE st.parent_ns

\* The dict parent_ns refers to.
ParentNamespace(tree, parent_ns, import_ns) ==
    IF parent_ns[1] = "import" THEN import_ns ELSE GetAt(tree, parent_ns[2])

\* The inner loop of nested_path, 'for v in sub_pointer', from container i;
\* Expanded goes on with the outcome got of _import_var.  Once parent_ns is
\* set in this loop it stays set for the containers that follow.  The loop
\* writes into the sub-import namespace as it goes: when _import_var ends
\* the process, what the earlier containers stored is there
\* ([st, failure], failure Null when the loop ends).
RECURSIVE ExpandContainers(_, _, _, _, _, _)
RECURSIVE Expanded(_, _, _, _, _, _, _)
Expanded(dir, vars_definition, import_ns, path, i, st, got) ==
    IF IsFail(got) THEN [st |-> st, failure |-> got]
    ELSE ExpandContainers(dir, vars_definition, import_ns, path, i + 1,
             [tree |-> SetAt(st.tree, st.sub_pointer[i], path, got[2][1]),
              sub_pointer |-> st.sub_pointer,
              parent_ns |-> ParentNs(st, i),
              l |-> st.l \o ChildPointers(st.sub_pointer[i], path, got[2][2])])

ExpandContainers(dir, vars_definition, import_ns, path, i, st) ==
    IF i > Len(st.sub_pointer) THEN [st |-> st, failure |-> Null]
    ELSE Expanded(dir, vars_definition, import_ns, path, i, st,
             import_var(dir, vars_definition,
                        ParentNamespace(st.tree, ParentNs(st, i), import_ns),
                        path))

\* The outer loop of nested_path, 'for path in n', from variable h;
\* HopDone goes on with the outcome of the inner loop.
RECURSIVE ExpandStack(_, _, _, _, _, _)
RECURSIVE HopDone(_, _, _, _, _, _)
HopDone(dir, vars_definition, import_ns, n, h, done) ==
    IF ~IsNull(done.failure)
    THEN [tree |-> done.st.tree, failure |-> done.failure]
    ELSE ExpandStack(dir, vars_definition, import_ns, n, h + 1,
             [tree |-> done.st.tree, sub_pointer |-> done.st.l,
              parent_ns |-> Null, l |-> <<>>])

ExpandStack(dir, vars_definition, import_ns, n, h, st) ==
    IF h > Len(n) THEN [tree |-> st.tree, failure |-> Null]
    ELSE HopDone(dir, vars_definition, import_ns, n, h,
             ExpandContainers(dir, vars_definition, import_ns, n[h], 1,
                 [tree |-> st.tree, sub_pointer |-> st.sub_pointer,
                  parent_ns |-> st.parent_ns, l |-> <<>>]))

\* nested_path(n): [tree, failure], the sub-import namespace after the
\* chain n, or as it is when the process ends with failure.
nested_path(dir, vars_definition, import_ns, sub_import_ns, n) ==
    ExpandStack(dir, vars_definition, import_ns, n, 1,
        [tree |-> sub_import_ns, sub_pointer |-> << <<>> >>,
         parent_ns |-> <<"import">>, l |-> <<>>])

\* The stack grammar, nested_path: VAR ("." VAR)*, on the tokens of a stack
\* string.
WholeStack(ts, rest) ==
    IF rest.ok /\ rest.next > Len(ts) THEN rest ELSE SyntaxError

ParseStack(ts) ==
    IF WordAt(ts, 1) THEN WholeStack(ts, ParseKeys(ts, 2, <<ts[1][2]>>))
    ELSE SyntaxError

\* The vars list of a sub_import entry merged into one dict, later entries
\* replacing earlier ones of the same name.
VarsDefinition(vars_list) ==
    [name \in {vars_list[j][1] : j \in 1..Len(vars_list)} |->
        LET last == CHOOSE j \in 1..Len(vars_list) :
                        /\ vars_list[j][1] = name
                        /\ \A k \in (j + 1)..Len(vars_list) : vars_list[k][1] # name
        IN  vars_list[last][2]]

\* _execute_sub_import once the stack string is parsed.
TransformStack(dir, sub_import, import_ns, sub_import_ns, stack) ==
    IF ~stack.ok THEN [tree |-> sub_import_ns, failure |-> Fail("SyntaxError")]
    ELSE nested_path(dir, VarsDefinition(sub_import.vars), import_ns,
                     sub_import_ns, stack.tree)

\* _execute_sub_import(sub_import, import_namespace, sub_import_namespace)
execute_sub_import(dir, sub_import, import_ns, sub_import_ns) ==
    TransformStack(dir, sub_import, import_ns, sub_import_ns,
                   ParseStack(sub_import.stack))

(***************************************************************************)
(* InventoryBuilder                                                        *)
(***************************************************************************)
\* _init_inventory: a key of the inventory maps to a dict, 'hostvars' under
\* '_meta' and 'hosts' under a group.
init_inventory == [g \in {"_meta"} |-> [k \in {"hostvars"} |-> <<>>]]

\* The groups of an inventory and the hosts of one.
Groups(inv) == {g \in DOMAIN inv : "hosts" \in DOMAIN inv[g]}
Hosts(inv, g) == inv[g]["hosts"]
InSeq(x, q) == \E j \in 1..Len(q) : q[j] = x

\* d.setdefault(key, value) on a dict given as a function.
SetDefault(d, key, value) ==
    IF key \in DOMAIN d THEN d
    ELSE [k \in DOMAIN d \cup {key} |-> IF k = key THEN value ELSE d[k]]

\* _initialize_group(group_name, inventory)
initialize_group(group_name, inv) ==
    LET made == SetDefault(inv, group_name, <<>>)
    IN  [made EXCEPT ![group_name] = SetDefault(@, "hosts", <<>>)]

\* _add_element_to_group with the membership test left out.
add_element_to_group_always(element_name, group_name, inv) ==
    [initialize_group(group_name, inv) EXCEPT
        ![group_name] = [@ EXCEPT !["hosts"] = Append(@, element_name)]]

\* _add_element_to_group(element_name, group_name, inventory)
add_element_to_group(element_name, group_name, inv) ==
    LET made == initialize_group(group_name, inv)
    IN  IF InSeq(element_name, Hosts(made, group_name)) THEN made
        ELSE [made EXCEPT
                 ![group_name] = [@ EXCEPT !["hosts"] = Append(@, element_name)]]

\* "%s" % v for a string, a number or None.
PyFormat(v) ==
    IF IsStr(v) THEN v[2] ELSE IF IsInt(v) THEN ToString(v[2]) ELSE "None"

\* host.get(key)
DictGet(host, key) == IF key \in DOMAIN host[2] THEN host[2][key] ELSE Null

\* _get_identifier without the fallback on the numeric id.
get_identifier_name_only(host, obj_type) == PyFormat(DictGet(host, "name"))

\* _get_identifier(host, obj_type)
get_identifier(host, obj_type) ==
    LET r == DictGet(host, "name")
    IN  IF IsNull(r) \/ r = Str("")
        THEN obj_type \o "_" \o PyFormat(DictGet(host, "id"))
        ELSE r[2]

\* _get_elements_list(application, object_type, filters, specific_host)
get_elements_list(dir, application, object_type, filters, specific_host) ==
    LET endpoint == <<application, object_type>>
    IN  IF ~IsNull(specific_host)
        THEN EndpointFilter(dir, endpoint, [k \in {"name"} |-> specific_host])
        ELSE IF ~IsNull(filters)
        THEN IF "id" \in DOMAIN filters[2]
             THEN <<EndpointGet(dir, endpoint, filters[2]["id"])>>
             ELSE EndpointFilter(dir, endpoint, filters[2])
        ELSE EndpointAll(dir, endpoint)

\* _resolve_expression(key_path, build_ns, import_ns, sub_import_ns)
resolve_expression(key_path_string, build_ns, import_ns, sub_import_ns) ==
    resolve(record_namespace(record_namespace(record_namespace(<<>>,
                "b", build_ns), "i", import_ns), "s", sub_import_ns),
            key_path_string)

\* None, or an empty list or string, is false in a condition.
Truthy(v) ==
    CASE IsNull(v) -> FALSE
      [] IsStr(v) -> v[2] # ""
      [] IsInt(v) -> v[2] # 0
      [] IsList(v) -> Len(v[2]) > 0
      [] IsDict(v) -> DOMAIN v[2] # {}

\* The loop of _load_element_vars over the declarations from d: each is one
\* <<key, expression>>, resolved against the build namespace as it stands;
\* VarLoaded goes on with the outcome r: build_ns[key] = value.  The result
\* is the build namespace as the loop leaves it and the failure that ended
\* the process in it, if one did.
RECURSIVE LoadVars(_, _, _, _, _)

\* VarLoaded with a name declared earlier keeping its first value.
VarLoadedFirstWins(host_vars, d, build_ns, import_ns, sub_import_ns, r) ==
    IF IsFail(r) THEN [build_ns |-> build_ns, failure |-> r]
    ELSE LoadVars(host_vars, d + 1,
                  Dict(SetDefault(build_ns[2], host_vars[d][1], r[2])),
                  import_ns, sub_import_ns)

VarLoaded(host_vars, d, build_ns, import_ns, sub_import_ns, r) ==
    IF IsFail(r) THEN [build_ns |-> build_ns, failure |-> r]
    ELSE LoadVars(host_vars, d + 1,
                  Dict(SetItem(build_ns[2], host_vars[d][1], r[2])),
                  import_ns, sub_import_ns)

LoadVars(host_vars, d, build_ns, import_ns, sub_import_ns) ==
    IF d > Len(host_vars) THEN [build_ns |-> build_ns, failure |-> Null]
    ELSE VarLoaded(host_vars, d, build_ns, import_ns, sub_import_ns,
             resolve_expression(host_vars[d][2], build_ns, import_ns,
                                sub_import_ns))

\* inventory['_meta']['hostvars'].update({element_name: dict(build_ns)})
RecordHostvars(inv, element_name, build_ns) ==
    [inv EXCEPT !["_meta"] =
        [@ EXCEPT !["hostvars"] = SetItem(@, element_name, build_ns)]]

\* _load_element_vars once the declarations are evaluated.
VarsLoaded(element_name, inv, loaded) ==
    IF ~IsNull(loaded.failure)
    THEN [inventory |-> inv, build_ns |-> loaded.build_ns,
          failure |-> loaded.failure]
    ELSE [inventory |-> RecordHostvars(inv, element_name, loaded.build_ns),
          build_ns |-> loaded.build_ns, failure |-> Null]

\* _load_element_vars: the inventory and the build namespace afterwards, and
\* the failure that ended the process if one did.  Nothing is recorded when
\* host_vars is None or empty.
load_element_vars(element_name, inv, host_vars, build_ns, import_ns, sub_import_ns) ==
    IF ~Truthy(host_vars)
    THEN [inventory |-> inv, build_ns |-> build_ns, failure |-> Null]
    ELSE VarsLoaded(element_name, inv,
             LoadVars(host_vars[2], 1, build_ns, import_ns, sub_import_ns))

\* The loop 'for imports in sub_import' from entry i; SubImported goes on
\* with the outcome r of _execute_sub_import.
RECURSIVE SubImports(_, _, _, _, _)
RECURSIVE SubImported(_, _, _, _, _)
SubImported(dir, sub_import, i, import_ns, r) ==
    IF ~IsNull(r.failure) THEN r
    ELSE SubImports(dir, sub_import, i + 1, import_ns, r.tree)

SubImports(dir, sub_import, i, import_ns, sub_import_ns) ==
    IF i > Len(sub_import) THEN [tree |-> sub_import_ns, failure |-> Null]
    ELSE SubImported(dir, sub_import, i, import_ns,
             execute_sub_import(dir, sub_import[i], import_ns, sub_import_ns))

\* The loop 'for tag in host_dict.get(group)' from tag t.
RECURSIVE TagGroups(_, _, _, _, _)
TagGroups(element_index, tags, t, group_prefix, inv) ==
    IF t > Len(tags) THEN inv
    ELSE TagGroups(element_index, tags, t + 1, group_prefix,
             add_element_to_group(element_index,
                 IF IsNull(group_prefix) THEN tags[t][2]
                 ELSE group_prefix[2] \o tags[t][2],
                 inv))

TagsGroup == <<Word("tags")>>

\* The loop 'for group in group_by' from entry i: the inventory afterwards
\* and the failure that ended the process if one did.  ByTags is the branch
\* of the literal 'tags' with the entity's tags, ByExpression the branch of
\* an expression with the outcome r of its resolution.  A group name is a
\* string; a dict or a list cannot be one (TypeError), nor can a number be
\* appended to a prefix.
RECURSIVE GroupBy(_, _, _, _, _, _)
RECURSIVE ByTags(_, _, _, _, _, _, _)
RECURSIVE ByExpression(_, _, _, _, _, _, _)
ByTags(element_index, group_by, i, group_prefix, ns, inv, tags) ==
    IF ~IsList(tags)
    THEN [inventory |-> inv, failure |-> Fail("TypeError")]
    ELSE GroupBy(element_index, group_by, i + 1, group_prefix, ns,
             TagGroups(element_index, tags[2], 1, group_prefix, inv))

ByExpression(element_index, group_by, i, group_prefix, ns, inv, r) ==
    CASE IsFail(r) -> [inventory |-> inv, failure |-> r]
      [] IsOk(r) /\ IsNull(r[2]) ->
           GroupBy(element_index, group_by, i + 1, group_prefix, ns, inv)
      [] IsOk(r) /\ IsStr(r[2]) ->
           GroupBy(element_index, group_by, i + 1, group_prefix, ns,
               add_element_to_group(element_index,
                   IF Truthy(group_prefix) THEN group_prefix[2] \o r[2][2]
                   ELSE r[2][2],
                   inv))
      [] IsOk(r) /\ (IsDict(r[2]) \/ IsList(r[2])
                     \/ (IsInt(r[2]) /\ Truthy(group_prefix))) ->
           [inventory |-> inv, failure |-> Fail("TypeError")]

GroupBy(element_index, group_by, i, group_prefix, ns, inv) ==
    IF i > Len(group_by) THEN [inventory |-> inv, failure |-> Null]
    ELSE IF group_by[i] = TagsGroup
    THEN ByTags(element_index, group_by, i, group_prefix, ns, inv,
                DictGet(ns.import_ns, "tags"))
    ELSE ByExpression(element_index, group_by, i, group_prefix, ns, inv,
             resolve_expression(group_by[i], ns.build_ns, ns.import_ns,
                                ns.sub_import_ns))

\* The group_by part of _add_element_to_inventory on the inventory placed.
GroupsOf(element_index, group_by, group_prefix, ns, placed) ==
    IF Truthy(group_by)
    THEN GroupBy(element_index, group_by[2], 1, group_prefix, ns, placed)
    ELSE [inventory |-> placed, failure |-> Null]

\* PlaceInGroups without the placement in 'all'.
PlaceInGroupsNoAll(element_index, inv, obj_type, group_by, group_prefix, ns) ==
    GroupsOf(element_index, group_by, group_prefix, ns,
        add_element_to_group(element_index, obj_type, inv))

\* The placements of _add_element_to_inventory that follow the host
\* variables: the type group, 'all', then the group_by groups.
PlaceInGroups(element_index, inv, obj_type, group_by, group_prefix, ns) ==
    GroupsOf(element_index, group_by, group_prefix, ns,
        add_element_to_group(element_index, "all",
            add_element_to_group(element_index, obj_type, inv)))

\* What _add_element_to_inventory leaves: the inventory and the three
\* namespaces when it returns or when the process ends in it.
Left(inv, build_ns, import_ns, sub_import_ns, fail) ==
    [inventory |-> inv, build_ns |-> build_ns, import_ns |-> import_ns,
     sub_import_ns |-> sub_import_ns, failure |-> fail]

\* _add_element_to_inventory once the groups are placed.
Placed(host_dict, sub_import_ns, build_ns, placed) ==
    Left(placed.inventory, build_ns, host_dict, sub_import_ns, placed.failure)

\* _add_element_to_inventory once the host variables are loaded.
AfterLoadVars(element_index, host_dict, inv, obj_type, options, sub_import_ns, loaded) ==
    IF ~IsNull(loaded.failure)
    THEN Left(inv, loaded.build_ns, host_dict, sub_import_ns, loaded.failure)
    ELSE Placed(host_dict, sub_import_ns, loaded.build_ns,
             PlaceInGroups(element_index, loaded.inventory, obj_type,
                 options.group_by, options.group_prefix,
                 [build_ns |-> loaded.build_ns, import_ns |-> host_dict,
                  sub_import_ns |-> sub_import_ns]))

\* _add_element_to_inventory once the sub-imports are run.  When a
\* sub-import ends the process, the sub-import namespace holds what was
\* stored until then.
AfterSubImports(element_index, host_dict, inv, obj_type, options, subs) ==
    IF ~IsNull(subs.failure)
    THEN Left(inv, EmptyDict, host_dict, subs.tree, subs.failure)
    ELSE AfterLoadVars(element_index, host_dict, inv, obj_type, options,
             subs.tree,
             load_element_vars(element_index, inv, options.host_vars,
                               EmptyDict, host_dict, subs.tree))

\* _add_element_to_inventory.  Iterating over a sub_import that is None
\* raises TypeError.
add_element_to_inventory(dir, element_index, host_dict, inv, obj_type, options) ==
    IF ~IsList(options.sub_import)
    THEN Left(inv, EmptyDict, host_dict, EmptyDict, Fail("TypeError"))
    ELSE AfterSubImports(element_index, host_dict, inv, obj_type, options,
             SubImports(dir, options.sub_import[2], 1, host_dict, EmptyDict))

(***************************************************************************)
(* A build: main runs build_inventory over the configured import           *)
(* statements and prints what it returns.                                  *)
(***************************************************************************)
MaxHosts == 2

\* Records of the directory.
Sw1 == Dict([id |-> Int(1), name |-> Str("sw1"), role |-> Str("leaf"),
             serial |-> Str("a-b"), site |-> Dict([slug |-> Str("par")]),
             tags |-> List(<<Str("core"), Str("edge")>>)])
Sw2 == Dict([id |-> Int(2), name |-> Str("sw2"), role |-> Null,
             serial |-> Null, site |-> Null, tags |-> List(<<Str("core")>>)])
Anon == Dict([id |-> Int(42), name |-> Str(""), role |-> Str("leaf"),
              serial |-> Str("a-b"), site |-> Null, tags |-> List(<<>>)])
Bare == Dict([id |-> Int(7), name |-> Null])
Rack1 == Dict([id |-> Int(1), name |-> Str("sw1"), role |-> Str("spine"),
               serial |-> Null, site |-> Null, tags |-> List(<<Str("core")>>)])
Eth0 == Dict([id |-> Int(11), name |-> Str("eth0"), device_id |-> Int(1)])
Eth1 == Dict([id |-> Int(12), name |-> Str("eth1"), device_id |-> Int(1)])
Eth0Again == Dict([id |-> Int(14), name |-> Str("eth0"), device_id |-> Int(1)])
Eth0Sw2 == Dict([id |-> Int(13), name |-> Str("eth0"), device_id |-> Int(2)])
Ip1 == Dict([id |-> Int(21), address |-> Str("ip1"), interface_id |-> Int(11)])
Ip2 == Dict([id |-> Int(22), address |-> Str("ip2"), interface_id |-> Int(12)])
Ip3 == Dict([id |-> Int(23), address |-> Str("ip3"), interface_id |-> Int(13)])

DevicePool == {Sw1, Sw2, Anon, Bare}

\* The sequences of at most n distinct members of S.
Listings(S, n) ==
    {q \in UNION {[1..k -> S] : k \in 0..n} :
        \A i, j \in 1..Len(q) : i # j => q[i] # q[j]}

Endpoints == {<<"dcim", "devices">>, <<"dcim", "racks">>,
              <<"dcim", "interfaces">>, <<"ipam", "ip_addresses">>}

Directory(devices, interfaces) ==
    [e \in Endpoints |->
        CASE e = <<"dcim", "devices">> -> devices
          [] e = <<"dcim", "racks">> -> <<Rack1>>
          [] e = <<"dcim", "interfaces">> -> interfaces
          [] e = <<"ipam", "ip_addresses">> -> <<Ip1, Ip2, Ip3>>]

InterfaceListings == {<<Eth0, Eth1, Eth0Sw2>>, <<Eth0, Eth0Sw2, Eth0Again>>}

\* Sub-import entries: the interfaces of the device, and the addresses of
\* each of its interfaces.
IfsVar == <<"ifs", [application |-> "dcim", type |-> "interfaces",
                    index |-> "name",
                    filter |-> << <<"device_id", KeyPathTokens("", <<"id">>)>> >>]>>
IpsVar == <<"ips", [application |-> "ipam", type |-> "ip_addresses",
                    index |-> "address",
                    filter |-> << <<"interface_id", KeyPathTokens("", <<"id">>)>> >>]>>
SubIfs == [stack |-> <<Word("ifs")>>, vars |-> <<IfsVar>>]
SubIfsIps == [stack |-> <<Word("ifs"), Sym("."), Word("ips")>>,
              vars |-> <<IfsVar, IpsVar>>]

\* A stack naming a variable that is not declared, and a filter reading a
\* namespace that _import_var does not record.
SubIfsGone == [stack |-> <<Word("ifs"), Sym("."), Word("gone")>>,
               vars |-> <<IfsVar>>]
SubIfsByBuild ==
    [stack |-> <<Word("ifs")>>,
     vars |-> << <<"ifs", [application |-> "dcim", type |-> "interfaces",
                           index |-> "name",
                           filter |-> << <<"device_id",
                                           KeyPathTokens("b", <<"id">>)>> >>]>> >>]

\* A filter reading a field that some devices carry as null and some lack.
SubIfsBySerial ==
    [stack |-> <<Word("ifs")>>,
     vars |-> << <<"ifs", [application |-> "dcim", type |-> "interfaces",
                           index |-> "name",
                           filter |-> << <<"device_id",
                                           KeyPathTokens("", <<"serial">>)>> >>]>> >>]

\* A second stack under the same first variable: the addresses again, under
\* another name.
AddrsVar == <<"addrs", IpsVar[2]>>
SubIfsAddrs == [stack |-> <<Word("ifs"), Sym("."), Word("addrs")>>,
                vars |-> <<IfsVar, AddrsVar>>]

\* The addresses filtered by the entity's own id: a stack that fetches
\* nothing for the records of the directory.
SubIps == [stack |-> <<Word("ips")>>, vars |-> <<IpsVar>>]

SubImportChoices ==
    {Null, List(<<SubIfs>>), List(<<SubIfsIps>>), List(<<SubIfsGone>>),
     List(<<SubIfsByBuild>>), List(<<SubIfsBySerial>>),
     List(<<SubIfsIps, SubIfsAddrs>>)}

\* host_vars sections: ordered <<name, expression>> declarations.
HvRole == <<"role", KeyPathTokens("i", <<"role">>)>>
HvChain == << <<"x", KeyPathTokens("", <<"role">>)>>,
              <<"y", KeyPathTokens("b", <<"x">>)>>,
              <<"x", KeyPathTokens("", <<"serial">>) \o SubTokens("-", "_", <<>>)>>,
              <<"z", KeyPathTokens("b", <<"x">>)>> >>
HostVarsChoices ==
    { Null,
      List(<<HvRole>>),
      List(HvChain),
      List(<< <<"p", KeyPathTokens("", <<"serial">>) \o SubTokens("(", "_", <<>>)>> >>),
      List(<< <<"y", KeyPathTokens("b", <<"x">>)>>, HvRole >>),
      List(<< <<"ifs", KeyPathTokens("s", <<"ifs", "ALL">>)>>,
              <<"slug", KeyPathTokens("", <<"site", "slug">>)
                          \o DefaultKeyTokens(KeyPathTokens("", <<"name">>))>> >>) }

GroupByChoices ==
    { Null,
      List(<<TagsGroup>>),
      List(<<TagsGroup, KeyPathTokens("", <<"role">>), TagsGroup>>),
      List(<<KeyPathTokens("", <<"site", "slug">>), KeyPathTokens("b", <<"role">>)>>),
      List(<<KeyPathTokens("", <<"role">>), KeyPathTokens("", <<"site">>)>>),
      List(<<KeyPathTokens("", <<"role">>), <<Word("role"), Sym(".")>>>>) }

GroupPrefixChoices == {Null, Str("tag_")}

Options(filters, group_by, group_prefix, host_vars, sub_import) ==
    [filters |-> filters, group_by |-> group_by, group_prefix |-> group_prefix,
     host_vars |-> host_vars, sub_import |-> sub_import]

\* import_options of a statement that configures nothing: {}.
NoOptions == Options(Null, Null, Null, Null, Null)

\* The devices statements of the configuration files.  Two of them are
\* statements validate_configuration refuses: the one that configures
\* nothing and one with an empty sub_import.
DeviceOptions ==
    {Options(Null, g, p, h, si) : g \in GroupByChoices, p \in GroupPrefixChoices,
                                  h \in HostVarsChoices, si \in SubImportChoices}
    \cup {Options(f, List(<<TagsGroup>>), Null, List(<<HvRole>>), List(<<SubIps>>)) :
            f \in {Dict([role |-> Str("leaf")]), Dict([id |-> Int(2)]),
                   Dict([id |-> Int(9)])}}
    \cup {Options(Null, List(<<TagsGroup>>), Null, Null, List(<<>>))}

RackOptions ==
    Options(Null, List(<<TagsGroup>>), Str("tag_"), Null, List(<<SubIps>>))

\* sub_import_def of the schema: a list of at least one entry, each with a
\* stack and at least one variable.  (An entry of vars is one
\* <<name, definition>> pair, a stack a string, by construction.)
ValidSubImport(sub_import) ==
    /\ IsList(sub_import)
    /\ Len(sub_import[2]) >= 1
    /\ \A j \in 1..Len(sub_import[2]) : Len(sub_import[2][j].vars) >= 1

\* The schema of an import statement: at least one option, and each option
\* present (not Null) of its type and not empty.  (An entry of host_vars
\* is one <<name, expression>> pair by construction.)
ValidStatement(options) ==
    /\ \E o \in DOMAIN options : ~IsNull(options[o])
    /\ IsNull(options.group_by)
          \/ (IsList(options.group_by) /\ Len(options.group_by[2]) >= 1)
    /\ IsNull(options.sub_import) \/ ValidSubImport(options.sub_import)
    /\ IsNull(options.group_prefix) \/ IsStr(options.group_prefix)
    /\ IsNull(options.filters)
          \/ (IsDict(options.filters) /\ DOMAIN options.filters[2] # {})
    /\ IsNull(options.host_vars)
          \/ (IsList(options.host_vars) /\ Len(options.host_vars[2]) >= 1)

\* validate_configuration(configuration), on the import section of the
\* configuration: does the schema accept it?  The section may be absent;
\* when present it holds at least one statement and each is valid.
validate_configuration(section) ==
    \/ IsNull(section)
    \/ /\ IsList(section)
       /\ Len(section[2]) >= 1
       /\ \A j \in 1..Len(section[2]) : ValidStatement(section[2][j][3])

\* The import section: the statements in the order of the configuration
\* file, each <<application, type, options>>; Null without the section.
ImportSections ==
    {Null}
    \cup {List(<< <<"dcim", "devices", o>> >>) : o \in DeviceOptions}
    \cup {List(<< <<"dcim", "devices", o>>, <<"dcim", "racks", RackOptions>> >>)
            : o \in DeviceOptions}
    \cup {List(<< <<"dcim", "racks", RackOptions>> >>)}

ScriptArgs ==
    {[list |-> TRUE, host |-> Null], [list |-> FALSE, host |-> Str("sw1")],
     [list |-> FALSE, host |-> Str("devices_42")],
     [list |-> FALSE, host |-> Null]}

ExprIdle == expression = Null /\ namespaces = Null /\ resolved = Null

\* main has parsed its arguments; the configuration file is yet to be
\* loaded.
Init ==
    /\ pc = "config"
    /\ ExprIdle
    /\ \E devices \in Listings(DevicePool, MaxHosts),
          interfaces \in InterfaceListings :
            nb = Directory(devices, interfaces)
    /\ script_args \in ScriptArgs
    /\ import_section \in ImportSections
    /\ inventory = Null
    /\ statements = <<>>
    /\ stmt_i = 0
    /\ netbox_hosts_list = <<>>
    /\ host_i = 0
    /\ build_namespace = Null
    /\ import_namespace = Null
    /\ sub_import_namespace = Null
    /\ document = Null
    /\ output = Null
    /\ failure = Null

\* main: load_config_file, which validates the parsed configuration before
\* InventoryBuilder is made.  A configuration the schema refuses ends the
\* process with ValidationError.
LoadConfigFile ==
    /\ pc = "config"
    /\ IF validate_configuration(import_section)
       THEN /\ pc' = "main"
            /\ UNCHANGED failure
       ELSE /\ pc' = "failed"
            /\ failure' = Fail("ValidationError")
    /\ UNCHANGED <<exprVars, nb, script_args, import_section, inventory,
                   statements, stmt_i, netbox_hosts_list, host_i,
                   build_namespace, import_namespace, sub_import_namespace,
                   document, output>>

\* The import statement of type object_type under application, {} if none:
\* import_section.get(application, {}).get(object_type, {}).
StatementOptions(section, application, object_type) ==
    IF \E j \in 1..Len(section) :
          section[j][1] = application /\ section[j][2] = object_type
    THEN section[CHOOSE j \in 1..Len(section) :
            section[j][1] = application /\ section[j][2] = object_type][3]
    ELSE NoOptions

\* build_inventory up to its first _execute_import.  With neither mode set it
\* returns {}; without an import section, list mode calls items() and host
\* mode get() on None (AttributeError).
BuildInventory ==
    /\ pc = "main"
    /\ IF ~script_args.list /\ ~Truthy(script_args.host)
       THEN /\ pc' = "returned"
            /\ document' = EmptyDict
            /\ UNCHANGED <<inventory, statements, stmt_i, failure>>
       ELSE /\ inventory' = init_inventory
            /\ UNCHANGED document
            /\ IF IsNull(import_section)
               THEN /\ pc' = "failed"
                    /\ failure' = Fail("AttributeError")
                    /\ UNCHANGED <<statements, stmt_i>>
               ELSE /\ pc' = "import"
                    /\ statements' =
                         IF script_args.list THEN import_section[2]
                         ELSE << <<"dcim", "devices",
                                   StatementOptions(import_section[2],
                                                    "dcim", "devices")>> >>
                    /\ stmt_i' = 1
                    /\ UNCHANGED failure
    /\ UNCHANGED <<exprVars, nb, script_args, import_section, netbox_hosts_list,
                   host_i, build_namespace, import_namespace,
                   sub_import_namespace, output>>

\* _execute_import up to its loop: the records of the statement are fetched.
ExecuteImport ==
    /\ pc = "import" /\ stmt_i <= Len(statements)
    /\ netbox_hosts_list' =
         get_elements_list(nb, statements[stmt_i][1], statements[stmt_i][2],
                           statements[stmt_i][3].filters, script_args.host)
    /\ host_i' = 1
    /\ pc' = "hosts"
    /\ UNCHANGED <<exprVars, nb, script_args, import_section, inventory,
                   statements, stmt_i, build_namespace, import_namespace,
                   sub_import_namespace, document, output, failure>>

\* The loop of _execute_import after an element: the next one, unless the
\* process has ended.
ElementDoneRegardless(fail, i) == [pc |-> "hosts", host_i |-> i + 1]

ElementDone(fail, i) ==
    IF IsNull(fail) THEN [pc |-> "hosts", host_i |-> i + 1]
    ELSE [pc |-> "failed", host_i |-> i]

\* One turn of the loop of _execute_import: _get_identifier, then
\* _add_element_to_inventory.  dict(host) of None raises TypeError.
AddElement ==
    /\ pc = "hosts" /\ host_i <= Len(netbox_hosts_list)
    /\ IF IsNull(netbox_hosts_list[host_i])
       THEN /\ pc' = "failed"
            /\ failure' = Fail("TypeError")
            /\ UNCHANGED <<inventory, host_i, build_namespace,
                           import_namespace, sub_import_namespace>>
       ELSE \E done \in {add_element_to_inventory(nb,
                            get_identifier(netbox_hosts_list[host_i],
                                           statements[stmt_i][2]),
                            netbox_hosts_list[host_i], inventory,
                            statements[stmt_i][2], statements[stmt_i][3])} :
                /\ inventory' = done.inventory
                /\ build_namespace' = done.build_ns
                /\ import_namespace' = done.import_ns
                /\ sub_import_namespace' = done.sub_import_ns
                /\ failure' = done.failure
                /\ pc' = ElementDone(done.failure, host_i).pc
                /\ host_i' = ElementDone(done.failure, host_i).host_i
    /\ UNCHANGED <<exprVars, nb, script_args, import_section, statements,
                   stmt_i, netbox_hosts_list, document, output>>

\* The loop of _execute_import is over: build_inventory goes on to the next
\* statement.
EndImport ==
    /\ pc = "hosts" /\ host_i > Len(netbox_hosts_list)
    /\ stmt_i' = stmt_i + 1
    /\ pc' = "import"
    /\ UNCHANGED <<exprVars, nb, script_args, import_section, inventory,
                   statements, netbox_hosts_list, host_i, build_namespace,
                   import_namespace, sub_import_namespace, document, output,
                   failure>>

\* build_inventory returns: the inventory in list mode, else the variables
\* of the host asked for, {} when it has none.
ReturnInventory ==
    /\ pc = "import" /\ stmt_i > Len(statements)
    /\ document' =
         IF script_args.list THEN <<"inventory", inventory>>
         ELSE LET hostvars == inventory["_meta"]["hostvars"]
              IN  IF script_args.host[2] \in DOMAIN hostvars
                  THEN hostvars[script_args.host[2]] ELSE EmptyDict
    /\ pc' = "returned"
    /\ UNCHANGED <<exprVars, nb, script_args, import_section, inventory,
                   statements, stmt_i, netbox_hosts_list, host_i,
                   build_namespace, import_namespace, sub_import_namespace,
                   output, failure>>

\* main: dump_json_inventory(builder.build_inventory())
DumpInventory ==
    /\ pc = "returned"
    /\ output' = document
    /\ pc' = "done"
    /\ UNCHANGED <<exprVars, nb, script_args, import_section, inventory,
                   statements, stmt_i, netbox_hosts_list, host_i,
                   build_namespace, import_namespace, sub_import_namespace,
                   document, failure>>

Next ==
    \/ LoadConfigFile
    \/ BuildInventory
    \/ ExecuteImport
    \/ AddElement
    \/ EndImport
    \/ ReturnInventory
    \/ DumpInventory

Spec == Init /\ [][Next]_vars

(***************************************************************************)
(* Expression resolution on its own: one expression string is resolved     *)
(* against one set of recorded namespaces.                                 *)
(***************************************************************************)
MaxPathLen == 2

KeyNames == {"a", "b", "ALL"}
Leaves == {Null, Str("a-a")}
Inner == Leaves \cup DictsOver({"a", "ALL"}, Leaves)
Roots == DictsOver({"a", "b"}, Inner)
OtherRoot == Dict([k \in {"b"} |-> Str("b")])

PathsUpTo(n) == UNION {[1..k -> KeyNames] : k \in 1..n}

PlainPaths == {KeyPathTokens("", k) : k \in PathsUpTo(MaxPathLen)}
KeyPathExprs ==
    {KeyPathTokens(sel, k) : sel \in {"", "i", "s", "b"}, k \in PathsUpTo(MaxPathLen)}
\* The count and flags a sub is written with: none, a count, a count and
\* flags (0, re.IGNORECASE, re.LOCALE, re.UNICODE | re.ASCII).
SubNumbers == {<<>>, <<1>>, <<1, 0>>, <<0, 2>>, <<0, 4>>, <<0, 288>>}
SubArgs ==
    {SubTokens(pt, "_", n) : pt \in {"-", "a", "("}, n \in SubNumbers}
SubExprs == {p \o a : p \in PlainPaths, a \in SubArgs}
DefaultKeyExprs ==
    {p \o DefaultKeyTokens(f) : p \in PlainPaths, f \in PlainPaths}
        \cup {p \o SubTokens("a", "b", <<>>) \o DefaultKeyTokens(KeyPathTokens("s", <<"b">>))
              : p \in PlainPaths}
Malformed ==
    { <<>>,
      <<Word("a"), Sym(".")>>,
      <<Sym("<"), Word("x"), Sym(">"), Word("a")>>,
      <<Word("a"), Sym("|"), Word("default"), Sym("("), Word("a"), Sym(")")>>,
      <<Word("a"), Sym("|"), Word("default_key"), Sym("("), Word("a"), Sym("|"),
        Word("default_key"), Sym("("), Word("b"), Sym(")"), Sym(")")>>,
      <<Word("a"), Sym("|"), Word("sub"), Sym("("), StrLit("a"), Sym(")")>> }

\* Namespaces as _resolve_expression records them (b, i, s) and as
\* _import_var does (i alone).
AllRecorded(r) ==
    record_namespace(record_namespace(record_namespace(<<>>,
        "b", OtherRoot), "i", r), "s", OtherRoot)
OnlyImport(r) == record_namespace(<<>>, "i", r)

\* Every source of a sub is a string, a number or None, whose str() is
\* written with Alphabet.
RECURSIVE Printable(_, _)
Printable(nss, tree) ==
    IF tree[1] = "key_path" THEN TRUE
    ELSE /\ Printable(nss, tree[2])
         /\ tree[1] = "sub" =>
              LET src == transform(nss, tree[2])
              IN  IsOk(src) => IsNull(src[2]) \/ IsStr(src[2])

BuildIdle ==
    /\ nb = Null /\ script_args = Null /\ import_section = Null
    /\ inventory = Null /\ statements = Null /\ stmt_i = 0
    /\ netbox_hosts_list = Null /\ host_i = 0 /\ build_namespace = Null
    /\ import_namespace = Null /\ sub_import_namespace = Null
    /\ document = Null /\ output = Null /\ failure = Null

ExprInit ==
    /\ pc = "resolve"
    /\ BuildIdle
    /\ resolved = Null
    /\ \E r \in Roots :
         \/ /\ expression \in KeyPathExprs \cup Malformed
            /\ namespaces \in {AllRecorded(r), OnlyImport(r)}
         \/ /\ expression \in SubExprs \cup DefaultKeyExprs
            /\ namespaces = AllRecorded(r)
            /\ Printable(namespaces, ParseExpr(expression).tree)

\* KeyPathResolver.resolve(key_path)
Resolve ==
    /\ pc = "resolve"
    /\ resolved' = resolve(namespaces, expression)
    /\ pc' = "resolved"
    /\ UNCHANGED <<expression, namespaces, buildVars>>

ExprNext == Resolve
SpecExpr == ExprInit /\ [][ExprNext]_vars

(***************************************************************************)
(* Properties of expression resolution (SpecExpr)                          *)
(***************************************************************************)
Parsed == ParseExpr(expression)
IsResolved(kind) == pc = "resolved" /\ Parsed.ok /\ Parsed.tree[1] = kind

\* The value reached from v by the first k keys, each found in a mapping;
\* <<"none">> when some step finds no such key.
RECURSIVE Follow(_, _, _)
Follow(v, keys, k) ==
    IF k = 0 THEN v
    ELSE LET u == Follow(v, keys, k - 1)
         IN  IF IsDict(u) /\ keys[k] \in DOMAIN u[2] THEN u[2][keys[k]]
             ELSE <<"none">>

\* C3: in 'p | default_key(f)', when p resolves to a non-null value, an
\* error in resolving f is invisible: the expression resolves to p's value.
C3_FallbackErrorInvisible ==
    IsResolved("default_key") =>
        LET p == transform(namespaces, Parsed.tree[2])
            f == transform(namespaces, Parsed.tree[3])
        IN  (IsOk(p) /\ ~IsNull(p[2]) /\ IsFail(f)) => resolved = p

\* C9: in 'p | default_key(f)', when p and f both resolve without error, the
\* result is f's value if p's value is null and p's value otherwise.
C9_DefaultKeyValue ==
    IsResolved("default_key") =>
        LET p == transform(namespaces, Parsed.tree[2])
            f == transform(namespaces, Parsed.tree[3])
        IN  (IsOk(p) /\ IsOk(f)) =>
                resolved = Ok(IF p[2] = Null THEN f[2] ELSE p[2])

\* A null primary replaced by a non-null fallback.
C9_Witness ==
    /\ IsResolved("default_key")
    /\ transform(namespaces, Parsed.tree[2]) = Ok(Null)
    /\ transform(namespaces, Parsed.tree[3]) = Ok(Str("a-a"))
    /\ resolved = Ok(Str("a-a"))

\* C10: walking a key path, a null container at any step gives null with no
\* error; a key absent from a non-null container that is not the final key
\* (hence not a terminal 'ALL' either) ends in UnresolvedKeyPath; a terminal
\* 'ALL' absent from a non-null container gives that container.
C10_KeyPathFailureRule ==
    (IsResolved("key_path") /\ Parsed.tree[2] \in DOMAIN namespaces) =>
        LET keys == Parsed.tree[3]
            root == namespaces[Parsed.tree[2]]
        IN  \A k \in 0..(Len(keys) - 1) :
                LET c == Follow(root, keys, k)
                IN  /\ c = Null => resolved = Ok(Null)
                    /\ (IsDict(c) /\ keys[k + 1] \notin DOMAIN c[2]) =>
                         /\ k + 1 < Len(keys) =>
                              resolved = Fail("UnresolvedKeyPath")
                         /\ (k + 1 = Len(keys) /\ keys[k + 1] = "ALL") =>
                              resolved = Ok(c)

\* A key that is not the last one is missing from the mapping it is looked
\* up in, and the resolution has failed.
C10_Witness ==
    /\ IsResolved("key_path") /\ Parsed.tree[2] \in DOMAIN namespaces
    /\ Len(Parsed.tree[3]) > 1
    /\ Parsed.tree[3][1] \notin DOMAIN namespaces[Parsed.tree[2]][2]
    /\ resolved = Fail("UnresolvedKeyPath")

\* The other two cases of C10: a null container met before the last key, and
\* a terminal 'ALL' missing from the mapping reached.
C10_WitnessNull ==
    /\ IsResolved("key_path") /\ Parsed.tree[2] \in DOMAIN namespaces
    /\ Len(Parsed.tree[3]) > 1
    /\ Follow(namespaces[Parsed.tree[2]], Parsed.tree[3], 1) = Null
    /\ resolved = Ok(Null)

C10_WitnessAll ==
    /\ IsResolved("key_path") /\ Parsed.tree[2] \in DOMAIN namespaces
    /\ Parsed.tree[3] = <<"a", "ALL">>
    /\ IsDict(Follow(namespaces[Parsed.tree[2]], Parsed.tree[3], 1))
    /\ resolved = Ok(Follow(namespaces[Parsed.tree[2]], Parsed.tree[3], 1))

(***************************************************************************)
(* Properties of a build (Spec)                                            *)
(***************************************************************************)
\* build_inventory has made its inventory.
Building ==
    /\ pc \notin {"config", "main"}
    /\ failure # Fail("ValidationError")
    /\ script_args.list \/ Truthy(script_args.host)

\* The last turn of the loop of _execute_import returned, or ended the
\* process, and the entity it was given.
Processed == pc = "hosts" /\ host_i > 1
Ended == pc = "failed" /\ stmt_i >= 1 /\ host_i >= 1
Entity == netbox_hosts_list[IF pc = "failed" THEN host_i ELSE host_i - 1]
EntityType == statements[stmt_i][2]
EntityOptions == statements[stmt_i][3]
EntityId == get_identifier(Entity, EntityType)
Hostvars == inventory["_meta"]["hostvars"]
Listed(h, g) == g \in Groups(inventory) /\ InSeq(h, Hosts(inventory, g))

\* The types under which the directory holds an entity identified by h.
TypesOf(h) ==
    {statements[k][2] : k \in
        {k \in 1..Len(statements) :
            \E e \in {nb[<<statements[k][1], statements[k][2]>>][j] :
                        j \in 1..Len(nb[<<statements[k][1], statements[k][2]>>])} :
                get_identifier(e, statements[k][2]) = h}}

\* C1: in every state reached while the inventory is built, every host
\* identifier in the host list of any group is also in the host list of the
\* group named after its entity type and in the host list of 'all'.
C1_InventoryInvariant ==
    Building =>
        \A g \in Groups(inventory) :
            \A j \in 1..Len(Hosts(inventory, g)) :
                /\ Listed(Hosts(inventory, g)[j], "all")
                /\ \E t \in TypesOf(Hosts(inventory, g)[j]) :
                       Listed(Hosts(inventory, g)[j], t)

\* An entity is listed in a group that group_by made, in a build that a
\* later group_by expression has ended.
C1_Witness ==
    /\ Ended /\ failure = Fail("SyntaxError")
    /\ Listed("sw1", "leaf") /\ Listed("sw1", "devices") /\ Listed("sw1", "all")

\* The interfaces the directory lists for the entity, in listing order, and
\* the values of their index field.
Fetched ==
    SelectSeq(nb[<<"dcim", "interfaces">>],
              LAMBDA e : e[2]["device_id"] = Entity[2]["id"])
FetchedNames == {Fetched[j][2]["name"][2] : j \in 1..Len(Fetched)}

\* C2: when the interfaces fetched for one entity under the variable 'ifs'
\* repeat a value of the index field, the build fails with DuplicateIndex;
\* when the values are distinct, the mapping stored under 'ifs' has exactly
\* one key per fetched interface, each mapped to that interface's fields.
C2_SubImportUniqueness ==
    (/\ Processed \/ Ended
     /\ EntityOptions.sub_import = List(<<SubIfs>>)) =>
        IF Cardinality(FetchedNames) < Len(Fetched)
        THEN pc = "failed" /\ failure = Fail("DuplicateIndex")
        ELSE /\ failure # Fail("DuplicateIndex")
             /\ IsDict(sub_import_namespace[2]["ifs"])
             /\ DOMAIN sub_import_namespace[2]["ifs"][2] = FetchedNames
             /\ Cardinality(DOMAIN sub_import_namespace[2]["ifs"][2]) = Len(Fetched)
             /\ \A j \in 1..Len(Fetched) :
                    sub_import_namespace[2]["ifs"][2][Fetched[j][2]["name"][2]]
                        = Fetched[j]

\* Two interfaces of one device carry the same name and the build has
\* ended with DuplicateIndex.
C2_Witness ==
    /\ Ended /\ failure = Fail("DuplicateIndex")
    /\ EntityOptions.sub_import = List(<<SubIfs>>)
    /\ Cardinality(FetchedNames) < Len(Fetched)

\* Two interfaces with distinct names are stored under two keys.
C2_WitnessDistinct ==
    /\ Processed /\ EntityOptions.sub_import = List(<<SubIfs>>)
    /\ Len(Fetched) = 2 /\ Cardinality(FetchedNames) = 2

\* The statement configures group_by = ['tags'] and a group_prefix and
\* nothing else, in list mode, and the entity carries a list of tags.
TagsOnly ==
    /\ script_args.list
    /\ Processed \/ Ended
    /\ IsNull(EntityOptions.filters)
    /\ EntityOptions.group_by = List(<<TagsGroup>>)
    /\ ~IsNull(EntityOptions.group_prefix)
    /\ IsNull(EntityOptions.host_vars)
    /\ IsNull(EntityOptions.sub_import)
    /\ "tags" \in DOMAIN Entity[2]

\* C4: in list mode, with only group_by = ['tags'] and group_prefix = P
\* configured, processing an entity h with tags t1..tn completes without
\* failure and leaves h listed in its type group, in 'all' and in every
\* P+ti, with an entry for h under _meta.hostvars.
C4_TagGrouping ==
    TagsOnly =>
        /\ pc # "failed"
        /\ Listed(EntityId, EntityType)
        /\ Listed(EntityId, "all")
        /\ \A t \in 1..Len(Entity[2]["tags"][2]) :
               Listed(EntityId,
                      EntityOptions.group_prefix[2] \o Entity[2]["tags"][2][t][2])
        /\ EntityId \in DOMAIN Hostvars

\* C5: after a top-level entity is processed without failure, under any
\* configuration, _meta.hostvars maps its identifier to its finished build
\* namespace.
C5_HostvarsRecorded ==
    Processed =>
        /\ EntityId \in DOMAIN Hostvars
        /\ Hostvars[EntityId] = build_namespace

\* The same property for the statements that declare host_vars.
C5_HostvarsRecordedWhenDeclared ==
    (Processed /\ Truthy(EntityOptions.host_vars)) =>
        /\ EntityId \in DOMAIN Hostvars
        /\ Hostvars[EntityId] = build_namespace

\* Group names and identifiers to place, those of the inventory and new ones.
PlacedNames == {"sw1", "sw2", "devices_42", "devices_7", "new"}
PlacedGroups == Groups(inventory) \cup {"new"}

\* C6: adding an identifier to a group twice leaves the inventory equal to
\* adding it once, and no group's host list holds an identifier twice.
C6_PlacementIdempotent ==
    Building =>
        /\ \A g \in PlacedGroups, h \in PlacedNames :
               add_element_to_group(h, g, add_element_to_group(h, g, inventory))
                   = add_element_to_group(h, g, inventory)
        /\ \A g \in Groups(inventory) :
               \A j, k \in 1..Len(Hosts(inventory, g)) :
                   Hosts(inventory, g)[j] = Hosts(inventory, g)[k] => j = k

\* An entity whose group_by names 'tags' twice has been processed: each of
\* its tag groups was given the entity twice.
C6_Witness ==
    /\ Processed
    /\ IsList(EntityOptions.group_by)
    /\ Len(EntityOptions.group_by[2]) = 3
    /\ EntityOptions.group_by[2][1] = TagsGroup
    /\ EntityOptions.group_by[2][3] = TagsGroup
    /\ "tags" \in DOMAIN Entity[2]
    /\ Len(Entity[2]["tags"][2]) = 2
    /\ Listed(EntityId, "core") /\ Listed(EntityId, "edge")

\* The declaration before d that last assigned the name x.
LatestBefore(hv, d, x) ==
    CHOOSE j \in 1..(d - 1) :
        hv[j][1] = x /\ \A k \in (j + 1)..(d - 1) : hv[k][1] # x

\* The value of declaration d of hv, evaluated with 'b' holding, for each
\* name assigned by the declarations before d, the value of the latest of
\* them.
RECURSIVE DeclValue(_, _, _, _)
AssignedBefore(hv, d, import_ns, sub_import_ns) ==
    Dict([x \in {hv[j][1] : j \in 1..(d - 1)} |->
            DeclValue(hv, LatestBefore(hv, d, x), import_ns, sub_import_ns)[2]])
DeclValue(hv, d, import_ns, sub_import_ns) ==
    resolve_expression(hv[d][2], AssignedBefore(hv, d, import_ns, sub_import_ns),
                       import_ns, sub_import_ns)

\* C7: after an entity with host_vars d1..dn is processed, its build
\* namespace holds, for each name, the value of the latest declaration of
\* that name, each di evaluated with 'b' holding exactly what d1..d(i-1)
\* assigned for this entity and nothing of another entity; this is what
\* _meta.hostvars records.
C7_OrderedHostVars ==
    (Processed /\ Truthy(EntityOptions.host_vars)) =>
        /\ build_namespace =
               AssignedBefore(EntityOptions.host_vars[2],
                              Len(EntityOptions.host_vars[2]) + 1,
                              import_namespace, sub_import_namespace)
        /\ Hostvars[EntityId] = build_namespace

\* The second entity of a listing is processed with declarations that
\* assign x twice and read it through 'b' after each assignment.
C7_Witness ==
    /\ Processed /\ host_i > 2
    /\ EntityOptions.host_vars = List(HvChain)
    /\ build_namespace =
           Dict([x |-> Str("a_b"), y |-> Str("leaf"), z |-> Str("a_b")])

\* C8: once a failure has ended the build, no step follows and no document
\* is ever emitted.
C8_NoPartialInventory ==
    ~IsNull(failure) => pc = "failed" /\ IsNull(output) /\ ~ENABLED Next

\* A build has ended on its second entity, the first one being placed in the
\* inventory.
C8_Witness ==
    /\ Ended /\ host_i > 1 /\ IsNull(output)
    /\ failure \in {Fail("DuplicateIndex"), Fail("UnresolvedKeyPath"),
                    Fail("InvalidPattern"), Fail("SyntaxError"),
                    Fail("UndefinedVariable")}
    /\ Listed(get_identifier(netbox_hosts_list[1], EntityType), "all")

\* The script is run for one host.
HostMode == ~script_args.list /\ Truthy(script_args.host)

\* The devices of the directory whose identifier is the host asked for, and
\* the options of the devices statement.
HostEntities ==
    {e \in {nb[<<"dcim", "devices">>][j] :
                j \in 1..Len(nb[<<"dcim", "devices">>])} :
        get_identifier(e, "devices") = script_args.host[2]}
HostOptions == StatementOptions(import_section[2], "dcim", "devices")

\* The variable mapping of entity e under declarations hv that read the
\* entity's own fields only: empty without declarations.
OwnVars(hv, e) ==
    IF ~Truthy(hv) THEN EmptyDict
    ELSE AssignedBefore(hv[2], Len(hv[2]) + 1, e, EmptyDict)

\* C11: run for a host name h, the result is exactly the variable mapping
\* of the entity whose identifier is h, with no group information, and the
\* empty mapping if no entity has identifier h.
C11_SingleHostMode ==
    (/\ HostMode /\ pc \in {"returned", "done"}
     /\ HostOptions.host_vars \in {Null, List(<<HvRole>>)}) =>
        /\ IsDict(document)
        /\ "hosts" \notin DOMAIN document[2]
        /\ IF HostEntities = {} THEN document = EmptyDict
           ELSE \E e \in HostEntities :
                    document = OwnVars(HostOptions.host_vars, e)

\* The same property for the hosts asked for by the name they carry in the
\* directory.
C11_SingleHostModeByName ==
    (/\ HostMode /\ pc \in {"returned", "done"}
     /\ script_args.host = Str("sw1")
     /\ HostOptions.host_vars \in {Null, List(<<HvRole>>)}) =>
        /\ IsDict(document)
        /\ "hosts" \notin DOMAIN document[2]
        /\ IF HostEntities = {} THEN document = EmptyDict
           ELSE \E e \in HostEntities :
                    document = OwnVars(HostOptions.host_vars, e)

\* The identifier of entity e of type T as the specification words it.
NamedOrNumbered(e, T) ==
    IF "name" \in DOMAIN e[2] /\ IsStr(e[2]["name"]) /\ e[2]["name"][2] # ""
    THEN e[2]["name"][2]
    ELSE T \o "_" \o ToString(e[2]["id"][2])

\* C12: the identifier of an entity of type T is its 'name' field when that
\* is present and non-empty, and otherwise T, '_' and its numeric id: the
\* type group lists the processed entities of a statement under these
\* identifiers, in the order of the listing.
C12_IdentifierComputation ==
    (Processed /\ stmt_i = 1) =>
        /\ EntityId = NamedOrNumbered(Entity, EntityType)
        /\ Hosts(inventory, EntityType) =
               [k \in 1..(host_i - 1) |->
                   NamedOrNumbered(netbox_hosts_list[k], EntityType)]

\* A device with an empty name and id 42 is listed as 'devices_42'.
C12_Witness ==
    /\ Processed /\ stmt_i = 1 /\ EntityType = "devices"
    /\ Entity[2]["name"] = Str("") /\ Entity[2]["id"] = Int(42)
    /\ Listed("devices_42", "devices")

\* A device whose name is null is listed under its numeric id too.
C12_WitnessNoName ==
    /\ Processed /\ stmt_i = 1 /\ EntityType = "devices"
    /\ IsNull(Entity[2]["name"])
    /\ Listed("devices_7", "devices")

\* The addresses the directory lists for the interface c.
AddressesOf(c) ==
    {a[2]["address"][2] :
        a \in {e \in {nb[<<"ipam", "ip_addresses">>][j] :
                        j \in 1..Len(nb[<<"ipam", "ip_addresses">>])} :
                  e[2]["interface_id"] = c[2]["id"]}}

\* C13: in the stack 'ifs.ips', at the second hop the filter of 'ips' is
\* resolved against each interface's own fields: the addresses stored under
\* an interface are those the directory lists for that interface.
C13_PerContainerFilterContext ==
    (Processed /\ EntityOptions.sub_import = List(<<SubIfsIps>>)) =>
        \A n \in DOMAIN sub_import_namespace[2]["ifs"][2] :
            /\ "ips" \in DOMAIN sub_import_namespace[2]["ifs"][2][n][2]
            /\ DOMAIN sub_import_namespace[2]["ifs"][2][n][2]["ips"][2]
                   = AddressesOf(sub_import_namespace[2]["ifs"][2][n])

\* The same property for the first interface of each entity.
C13_FirstContainerFilterContext ==
    (Processed /\ EntityOptions.sub_import = List(<<SubIfsIps>>)) =>
        \A n \in DOMAIN sub_import_namespace[2]["ifs"][2] :
            n = Fetched[1][2]["name"][2] =>
                DOMAIN sub_import_namespace[2]["ifs"][2][n][2]["ips"][2]
                    = AddressesOf(sub_import_namespace[2]["ifs"][2][n])

\* The entity just handled went through a sub-import whose filter reads
\* its field 'serial'.
FilterBySerial ==
    /\ Processed \/ Ended
    /\ EntityOptions.sub_import = List(<<SubIfsBySerial>>)

\* C14: when the value expression of a filter resolves to nothing against
\* the parent context, a null value or a missing field, the sub-import ends
\* the build.
C14_UnresolvedFilterFatal ==
    (/\ FilterBySerial
     /\ ("serial" \notin DOMAIN Entity[2] \/ IsNull(Entity[2]["serial"]))) =>
        pc = "failed" /\ IsFail(failure)

\* The same property for the missing field alone.
C14_MissingFilterFieldFatal ==
    (FilterBySerial /\ "serial" \notin DOMAIN Entity[2]) =>
        pc = "failed" /\ failure = Fail("UnresolvedKeyPath")

\* The entity just handled went through the stack 'ifs.gone', whose second
\* variable has no definition, and the first hop met no repeated index.
StackWithUndefined ==
    /\ Processed \/ Ended
    /\ EntityOptions.sub_import = List(<<SubIfsGone>>)
    /\ Cardinality(FetchedNames) = Len(Fetched)

\* C15: a variable of a stack that has no entry in the variable definitions
\* ends the build with UndefinedVariable, whatever the directory returned
\* at the earlier hops.
C15_UndefinedVariableFatal ==
    StackWithUndefined => pc = "failed" /\ failure = Fail("UndefinedVariable")

\* The same property when the earlier hop returned at least one entity.
C15_UndefinedVariableFatalWithParents ==
    (StackWithUndefined /\ Len(Fetched) > 0) =>
        pc = "failed" /\ failure = Fail("UndefinedVariable")

\* The entity just processed went through the stacks 'ifs.ips' then
\* 'ifs.addrs'.
TwoStacks ==
    /\ Processed
    /\ EntityOptions.sub_import = List(<<SubIfsIps, SubIfsAddrs>>)

\* C16: the stacks of one statement run in order into one sub-import
\* namespace and what an earlier stack stored is still there after a later
\* one: after 'ifs.ips' then 'ifs.addrs' every interface under 'ifs' holds
\* both the 'ips' mapping and the 'addrs' mapping.
C16_AccumulationAcrossStacks ==
    TwoStacks =>
        \A n \in DOMAIN sub_import_namespace[2]["ifs"][2] :
            /\ "ips" \in DOMAIN sub_import_namespace[2]["ifs"][2][n][2]
            /\ "addrs" \in DOMAIN sub_import_namespace[2]["ifs"][2][n][2]

\* The same property for what the later stack stores.
C16_LaterStackStored ==
    TwoStacks =>
        /\ DOMAIN sub_import_namespace[2]["ifs"][2] = FetchedNames
        /\ \A n \in DOMAIN sub_import_namespace[2]["ifs"][2] :
               "addrs" \in DOMAIN sub_import_namespace[2]["ifs"][2][n][2]

\* The entity just handled has no field 'role', its sub-imports pass, and
\* the statement names the field in its host_vars, or first in its
\* group_by.
LacksRole ==
    /\ Processed \/ Ended
    /\ EntityOptions.sub_import = List(<<SubIfs>>)
    /\ "role" \notin DOMAIN Entity[2]
RoleInHostVars == EntityOptions.host_vars = List(<<HvRole>>)
RoleInGroupBy ==
    /\ IsNull(EntityOptions.host_vars)
    /\ IsList(EntityOptions.group_by)
    /\ EntityOptions.group_by[2][1] = KeyPathTokens("", <<"role">>)

\* C17: a host_vars or group_by expression whose final key is a field the
\* entity does not have ends the build: no null variable is recorded, no
\* group is skipped, nothing is emitted.
C17_AbsentFinalKeyFatal ==
    (LacksRole /\ (RoleInHostVars \/ RoleInGroupBy)) =>
        /\ pc = "failed" /\ failure = Fail("UnresolvedKeyPath")
        /\ EntityId \notin DOMAIN Hostvars
        /\ IsNull(output)

\* A build has ended on a host_vars expression naming a missing field.
C17_Witness ==
    /\ Ended /\ LacksRole /\ RoleInHostVars
    /\ failure = Fail("UnresolvedKeyPath")

\* A build has ended on a group_by expression naming a missing field.
C17_WitnessGroupBy ==
    /\ Ended /\ LacksRole /\ RoleInGroupBy
    /\ failure = Fail("UnresolvedKeyPath")

\* In the resolution of a key path on its own: a last key other than 'ALL'
\* that is missing from the mapping reached never resolves.
C17_AbsentFinalKeyNeverResolves ==
    (/\ IsResolved("key_path") /\ Parsed.tree[2] \in DOMAIN namespaces
     /\ IsDict(Follow(namespaces[Parsed.tree[2]], Parsed.tree[3],
                      Len(Parsed.tree[3]) - 1))
     /\ Parsed.tree[3][Len(Parsed.tree[3])] # "ALL"
     /\ Parsed.tree[3][Len(Parsed.tree[3])] \notin
            DOMAIN Follow(namespaces[Parsed.tree[2]], Parsed.tree[3],
                          Len(Parsed.tree[3]) - 1)[2]) =>
        resolved = Fail("UnresolvedKeyPath")

====
